---- MODULE Spec2Model ----
(***************************************************************************)
(* A model of news-recap-and-email.py: the run of main() from the loading  *)
(* of the configuration to the hand-off of the digest to the SMTP server.  *)
(*                                                                         *)
(* Granularity: one action per interaction with the outside world (a       *)
(* provider call, an HTTP request, a sleep, an SMTP command) together with *)
(* the local computation that follows it up to the next interaction.       *)
(*                                                                         *)
(* Python strings are modelled as sequences of tokens.  A token is a run   *)
(* of characters that the code never looks inside: a word, a run of white  *)
(* space (" "), a separator ("/", ";"), a file extension (".png").         *)
(* lower(), strip(), split(), startswith() and "in" are defined on these   *)
(* sequences as Python defines them on strings.                            *)
(***************************************************************************)
EXTENDS Integers, Sequences, FiniteSets, TLC

VARIABLES
    pc,                 \* position of main() (or of the function it is in)
    env,                \* os.environ after load_dotenv(): key -> value, on the keys present
    now,                \* main: datetime.now() (line 348); None before it is read
    email_subject,      \* main: the subject line (line 351)
    gemini_model,       \* global gemini_model is set (line 33, 85)
    openai_client,      \* global openai_client is set (line 34, 124)
    gemini_ok,          \* main: result of check_gemini()
    openai_ok,          \* main: result of check_openai()
    startup_checks,     \* the startup checks main() has called, in order
    articles,           \* main: the fetched batch
    i,                  \* main: the loop index of enumerate(articles, 1)
    email_body_parts,   \* main: list of HTML parts
    email_attachments,  \* main: dict cid -> (bytes, subtype)
    attempt,            \* get_gemini_perspective: loop variable
    wait_time,          \* get_gemini_perspective: current backoff
    gemini_summary,     \* main: result of get_gemini_perspective
    openai_summary,     \* main: result of get_openai_perspective
    gemini_calls,       \* provider side: outcomes of the generate_content calls
                        \* made for the article in hand
    gemini_last,        \* provider side: the response of the latest of these calls
    waits,              \* clock side: the time.sleep() arguments during the
                        \* summarizer calls made for the article in hand
    openai_calls,       \* provider side: outcomes of the chat.completions calls
                        \* made for the article in hand
    net,                \* the kinds of network interaction performed so far
    fetches,            \* number of requests sent to the article source
    fetched,            \* source side: the outcome of the latest of these requests
    downloads,          \* the loop indexes for which an image GET was issued
    image_last,         \* server side: the response to the image GET of the article
                        \* in hand
    sleeps,             \* number of inter-article time.sleep(1) calls
    msg,                \* send_email: the parts of the MIME message
    server,             \* send_email: local 'server' is bound
    conn,               \* transport side: state of the SMTP connection
    smtp_log,           \* transport side: the SMTP steps executed, in order
    exit_status         \* "running", or the exit status of the process

vars == <<pc, env, now, email_subject, gemini_model, openai_client, gemini_ok, openai_ok,
          startup_checks, articles, i,
          email_body_parts, email_attachments, attempt, wait_time, gemini_summary,
          openai_summary, gemini_calls, gemini_last, waits, openai_calls, net,
          fetches, fetched, downloads, image_last, sleeps, msg, server, conn, smtp_log,
          exit_status>>

\* Groups of variables, for the UNCHANGED clauses.
handleVars == <<gemini_model, openai_client, gemini_ok, openai_ok, startup_checks>>
digestVars == <<articles, i, email_body_parts, email_attachments>>
geminiVars == <<attempt, wait_time, gemini_calls, gemini_last, waits>>
summaryVars == <<gemini_summary, openai_summary, openai_calls>>
countVars == <<fetches, fetched, downloads, image_last, sleeps>>
smtpVars == <<msg, server, conn, smtp_log>>
dateVars == <<now, email_subject>>

-----------------------------------------------------------------------------
(* Bounds of the model.                                                    *)

\* largest batch the article source returns
MaxArticles == 2
\* longest provider text, in tokens
MaxTextLen == 2

-----------------------------------------------------------------------------
(* Python values.                                                          *)

\* Python's None, where a string is expected.
None == <<"<None>">>

\* A generate_content call that raises; also the value of gemini_last before
\* the first call.
NoResponse == [raises |-> TRUE, text |-> None, block_reason |-> "BLOCK_REASON_UNSPECIFIED"]

\* The value of fetched before the request to the article source.
NoFetch == [raises |-> FALSE, status |-> "none", articles |-> <<>>]

\* An image GET that raises; also the value of image_last when no GET has been
\* made for the article in hand.
NoImageResponse ==
    [raises |-> TRUE, status_code |-> 0, content_type |-> None, content |-> "none"]

\* bool(x) of an optional string.
Truthy(x) == x # None /\ Len(x) > 0

\* str.lower() on one token.
LowerTok(w) ==
    CASE w = "Overloaded" -> "overloaded"
      [] w = "OVERLOADED" -> "overloaded"
      [] w = "Try Again"  -> "try again"
      [] w = "N/A"        -> "n/a"
      [] w = "None"       -> "none"
      [] w = "NONE"       -> "none"
      [] w = "PJPEG"      -> "pjpeg"
      [] w = ".PNG"       -> ".png"
      [] w = ".JPG"       -> ".jpg"
      [] OTHER            -> w

\* str.lower()
Lower(s) == [k \in 1..Len(s) |-> LowerTok(s[k])]

\* phrase in s
Contains(s, phrase) == \E k \in 1..Len(s) : s[k] = phrase

IsSpace(w) == w = " "

RECURSIVE LStrip(_)
LStrip(s) == IF Len(s) > 0 /\ IsSpace(Head(s)) THEN LStrip(Tail(s)) ELSE s

RECURSIVE RStrip(_)
RStrip(s) ==
    IF Len(s) > 0 /\ IsSpace(s[Len(s)]) THEN RStrip(SubSeq(s, 1, Len(s) - 1)) ELSE s

\* str.strip()
Strip(s) == RStrip(LStrip(s))

\* The sequences over S of length at most n.
SeqUpTo(S, n) == UNION {[1..k -> S] : k \in 0..n}

-----------------------------------------------------------------------------
(* Configuration and the startup gate (lines 51-137, 332-341, 475-477).    *)

api_keys == {"GEMINI_API_KEY", "OPENAI_API_KEY", "NEWS_API_KEY"}

email_vars == {"EMAIL_SENDER", "EMAIL_APP_PASSWORD", "EMAIL_RECEIVER", "EMAIL_HOST",
               "EMAIL_PORT"}

\* The complete environment: every key present with a non-empty value.
CompleteEnv == [k \in api_keys \cup email_vars |-> <<"value">>]

\* The environments considered: complete; one required key absent; one of the
\* two provider keys present with an empty value ("GEMINI_API_KEY=" in .env).
\* The code never looks at the other values itself, it hands them to the
\* services, whose answers are inputs of their own; EMAIL_PORT is numeric.
Environments ==
    {CompleteEnv}
    \cup {[k \in (api_keys \cup email_vars) \ {a} |-> <<"value">>] :
             a \in api_keys \cup email_vars}
    \cup {[CompleteEnv EXCEPT ![k] = <<>>] : k \in {"GEMINI_API_KEY", "OPENAI_API_KEY"}}

\* os.environ.get(k)
Getenv(e, k) == IF k \in DOMAIN e THEN e[k] ELSE None

\* load_environment(): True iff no key is absent from os.environ.
load_environment(e) ==
    LET missing_keys == {k \in api_keys : k \notin DOMAIN e}
        missing_vars == {v \in email_vars : v \notin DOMAIN e}
    IN  IF missing_keys # {} THEN FALSE
        ELSE IF missing_vars # {} THEN FALSE
        ELSE TRUE

\* strftime('%B') of the month number.
MonthName == <<"January", "February", "March", "April", "May", "June", "July",
               "August", "September", "October", "November", "December">>

\* The days of each month (of a year that is not a leap year).
DaysIn == <<31, 28, 31, 30, 31, 30, 31, 31, 30, 31, 30, 31>>

\* The values datetime.now() may have: every day of one year.
Dates == {d \in [year : {2025}, month : 1..12, day : 1..31] : d.day <= DaysIn[d.month]}

\* The date of the run of main().
RunDate == [year |-> 2025, month |-> 11, day |-> 3]

\* get_ordinal_date, lines 43-46: the suffix of the day number.
OrdinalSuffix_NoTeens(day) ==
    CASE day % 10 = 1 -> "st"
      [] day % 10 = 2 -> "nd"
      [] day % 10 = 3 -> "rd"
      [] OTHER        -> "th"

OrdinalSuffix(day) ==
    IF 10 <= day % 100 /\ day % 100 <= 20
    THEN "th"
    ELSE CASE day % 10 = 1 -> "st"
           [] day % 10 = 2 -> "nd"
           [] day % 10 = 3 -> "rd"
           [] OTHER        -> "th"

\* get_ordinal_date(d), lines 36-49: "November 3rd, 2025" as the tokens
\* month, " ", day, suffix, ",", " ", year.
get_ordinal_date(d) ==
    LET day == d.day
        suffix == OrdinalSuffix(day)
    IN  <<MonthName[d.month], " ", ToString(day), suffix, ",", " ", ToString(d.year)>>

\* main, line 351: the subject line.
Subject(today_date) == <<"News Summary for", " ">> \o today_date

\* The state of everything but the position, the environment and the date
\* when main() starts.
Fresh ==
    /\ startup_checks = <<>>
    /\ gemini_model = FALSE
    /\ openai_client = FALSE
    /\ gemini_ok = FALSE
    /\ openai_ok = FALSE
    /\ articles = <<>>
    /\ i = 0
    /\ email_body_parts = <<>>
    /\ email_attachments = <<>>
    /\ attempt = 0
    /\ wait_time = 0
    /\ gemini_summary = None
    /\ openai_summary = None
    /\ gemini_calls = <<>>
    /\ gemini_last = NoResponse
    /\ waits = <<>>
    /\ openai_calls = <<>>
    /\ net = {}
    /\ fetches = 0
    /\ fetched = NoFetch
    /\ downloads = {}
    /\ image_last = NoImageResponse
    /\ sleeps = 0
    /\ msg = <<>>
    /\ server = FALSE
    /\ conn = "none"
    /\ smtp_log = <<>>
    /\ exit_status = "running"

Init ==
    /\ pc = "load_environment"
    /\ env \in Environments
    /\ now = None
    /\ email_subject = None
    /\ Fresh

\* main, lines 333-334: sys.exit(1) when the configuration is incomplete.
LoadEnvironment ==
    /\ pc = "load_environment"
    /\ IF load_environment(env)
       THEN pc' = "check_gemini" /\ UNCHANGED exit_status
       ELSE pc' = "exit" /\ exit_status' = "1"
    /\ UNCHANGED <<env, dateVars, handleVars, digestVars, geminiVars, summaryVars, net,
                   countVars, smtpVars>>

\* The outcomes of a startup "Hello" call: an exception, a response with text,
\* a response without text.
CheckOutcomes == {"exception", "text", "no_text"}

\* check_gemini(), lines 70-113.  genai.configure / GenerativeModel may raise
\* before the global is assigned ("configure_exception").
CheckGemini ==
    /\ pc = "check_gemini"
    /\ IF ~Truthy(Getenv(env, "GEMINI_API_KEY"))
       THEN /\ gemini_ok' = FALSE
            /\ UNCHANGED <<gemini_model, net>>
       ELSE \E o \in CheckOutcomes \cup {"configure_exception"} :
            /\ gemini_model' = (o # "configure_exception")
            /\ net' = IF o = "configure_exception" THEN net
                      ELSE net \cup {"gemini_check"}
            /\ gemini_ok' = (o = "text")
    /\ startup_checks' = Append(startup_checks, "check_gemini")
    /\ pc' = "check_openai"
    /\ UNCHANGED <<env, dateVars, openai_client, openai_ok, digestVars, geminiVars,
                   summaryVars, countVars, smtpVars, exit_status>>

\* check_openai(), lines 115-137, and the gate of main, lines 339 and 475-477.
CheckOpenAI ==
    /\ pc = "check_openai"
    /\ IF ~Truthy(Getenv(env, "OPENAI_API_KEY"))
       THEN /\ openai_ok' = FALSE
            /\ UNCHANGED <<openai_client, net>>
       ELSE \E o \in CheckOutcomes \cup {"configure_exception"} :
            /\ openai_client' = (o # "configure_exception")
            /\ net' = IF o = "configure_exception" THEN net
                      ELSE net \cup {"openai_check"}
            /\ openai_ok' = (o = "text")
    /\ startup_checks' = Append(startup_checks, "check_openai")
    /\ IF gemini_ok /\ openai_ok'
       THEN pc' = "startup_sleep" /\ UNCHANGED exit_status
       ELSE pc' = "exit" /\ exit_status' = "1"
    /\ UNCHANGED <<env, dateVars, gemini_model, gemini_ok, digestVars, geminiVars,
                   summaryVars, countVars, smtpVars>>

\* main, line 341: time.sleep(1) before the fetch.
StartupSleep ==
    /\ pc = "startup_sleep"
    /\ pc' = "fetch"
    /\ UNCHANGED <<env, dateVars, handleVars, digestVars, geminiVars, summaryVars, net,
                   countVars, smtpVars, exit_status>>

-----------------------------------------------------------------------------
(* The article source (lines 139-164).                                     *)

\* The articles the source may deliver: title, author and urlToImage as the
\* JSON carries them (null is None).
Catalogue ==
    << [title |-> "A", author |-> <<"N/A">>, urlToImage |-> <<"http://h/a">>],
       [title |-> "B", author |-> <<"Ann">>, urlToImage |-> <<"http://h/b", ".png">>],
       [title |-> "C", author |-> None,      urlToImage |-> None],
       [title |-> "D", author |-> <<>>,      urlToImage |-> <<"http://h/d", ".JPG">>],
       [title |-> "E", author |-> <<"Bob">>, urlToImage |-> <<"None">>],
       [title |-> "F", author |-> <<"Eve">>, urlToImage |-> <<>>],
       [title |-> "G", author |-> <<"n/a">>, urlToImage |-> <<"N/A">>] >>

\* The batch of n articles that starts at article s of the catalogue (cyclically).
Window(s, n) == [k \in 1..n |-> Catalogue[((s + k - 2) % Len(Catalogue)) + 1]]

\* The batches the source may deliver: up to MaxArticles articles.
Batches == {Window(s, n) : s \in 1..Len(Catalogue), n \in 0..MaxArticles}

\* What requests.get / raise_for_status / response.json give: an exception
\* (transport error or non-success status), or the decoded JSON object.
FetchOutcomes ==
    {[raises |-> TRUE, status |-> "none", articles |-> <<>>]} \cup
    [raises : {FALSE}, status : {"ok", "error", "other"}, articles : Batches]

\* fetch_news_from_newsapi without the status test of line 152.
fetch_news_from_newsapi_AnyStatus(o) ==
    IF o.raises THEN <<>> ELSE o.articles

\* fetch_news_from_newsapi(): the value returned for an outcome.
fetch_news_from_newsapi(o) ==
    IF o.raises THEN <<>>
    ELSE IF o.status = "ok" /\ Len(o.articles) > 0 THEN o.articles
    ELSE IF o.status = "error" THEN <<>>
    ELSE <<>>

\* get_gemini_perspective, lines 208-209
max_retries == 3
InitialWait == 2

\* The first two parts of the body (lines 356-357).
HeaderParts(batch) == << [kind |-> "h1"], [kind |-> "count", n |-> Len(batch)] >>

\* main, lines 343-357 and 472-479: the fetch, and either the end of the run
\* (empty batch) or the entry into the loop and into get_gemini_perspective for
\* the first article.
FetchNews ==
    /\ pc = "fetch"
    /\ \E o \in FetchOutcomes :
        LET got == fetch_news_from_newsapi(o) IN
        /\ articles' = got
        /\ IF Len(got) > 0
           THEN /\ pc' = "gemini"
                /\ i' = 1
                /\ email_body_parts' = HeaderParts(got)
                /\ now' = RunDate
                /\ email_subject' = Subject(get_ordinal_date(RunDate))
                /\ UNCHANGED exit_status
           ELSE /\ pc' = "exit"
                /\ exit_status' = "0"
                /\ UNCHANGED <<i, email_body_parts, dateVars>>
        /\ fetched' = o
    /\ fetches' = fetches + 1
    /\ net' = net \cup {"fetch"}
    /\ attempt' = 0
    /\ wait_time' = InitialWait
    /\ UNCHANGED <<env, handleVars, email_attachments, gemini_calls, gemini_last, waits,
                   summaryVars, downloads, image_last, sleeps, smtpVars>>

-----------------------------------------------------------------------------
(* The summarizers (lines 166-277).                                        *)

\* The words of a provider text: white space, an ordinary word, and the two
\* overload phrases in the capitalisations a provider may use.
PlainWords == {" ", "ok"}
OverloadWords == {"Overloaded", "try again"}

\* The texts a provider may return in the tests of the summarizers.
StubTexts == SeqUpTo(PlainWords \cup OverloadWords, MaxTextLen) \cup {None}

\* The block reasons of a Gemini response; the first one is falsy.
BlockReasons == {"BLOCK_REASON_UNSPECIFIED", "SAFETY", "OTHER"}

\* generate_content: it raises, or gives a response with .text and
\* .prompt_feedback.block_reason.
GeminiResponses(texts, reasons) ==
    {NoResponse} \cup [raises : {FALSE}, text : texts, block_reason : reasons]

\* The Gemini responses in the tests of the summarizers, and in a run of main.
StubGemini == GeminiResponses(StubTexts, BlockReasons)
RunGemini == GeminiResponses({None, <<"ok", " ">>}, {"BLOCK_REASON_UNSPECIFIED", "SAFETY"})

\* chat.completions.create: it raises (or gives no choice), or gives a message
\* content.
OpenAIResponses(texts) ==
    {[raises |-> TRUE, content |-> None]} \cup [raises : {FALSE}, content : texts]

StubOpenAI == OpenAIResponses(StubTexts)
RunOpenAI == OpenAIResponses({<<"ok", " ">>})

\* Provider side: what a Gemini response is, whatever the code makes of it.
GeminiKind(r) ==
    IF r.raises THEN "exception"
    ELSE IF r.text # None /\ r.text # <<>>
         THEN IF \E k \in 1..Len(r.text) : r.text[k] \in OverloadWords
              THEN "overload" ELSE "usable"
    ELSE IF r.block_reason # "BLOCK_REASON_UNSPECIFIED" THEN "blocked"
    ELSE "empty"

\* Provider side: what an OpenAI response is.
OpenAIKind(r) ==
    IF r.raises THEN "exception"
    ELSE IF r.content # None /\ r.content # <<>> THEN "content"
    ELSE "empty"

\* IsOverloadText without the lower() of line 221.
IsOverloadText_CaseSensitive(text) ==
    Contains(text, "overloaded") \/ Contains(text, "try again")

\* Line 221: the text reports an overload.
IsOverloadText(text) ==
    Contains(Lower(text), "overloaded") \/ Contains(Lower(text), "try again")

\* Line 232: the value returned for a block.
BlockedSummary(reason) ==
    <<"Summary generation blocked by Gemini safety filters (", reason, ").">>

GeminiNotInitialized == <<"Gemini summary could not be generated.">>
GeminiFallback == <<"Summary could not be generated by Gemini after multiple attempts.">>
OpenAINotInitialized == <<"OpenAI summary could not be generated.">>
OpenAIFallback == <<"Summary could not be generated by OpenAI.">>

\* GeminiAttempt with the block of lines 229-232 left out: a blocked response is
\* one more failed attempt.
GeminiAttempt_BlockRetried(r) ==
    IF r.raises THEN [returns |-> FALSE, value |-> None]
    ELSE IF Truthy(r.text) /\ ~IsOverloadText(r.text)
         THEN [returns |-> TRUE, value |-> Strip(r.text)]
    ELSE [returns |-> FALSE, value |-> None]

\* Lines 212-239: one pass through the body of the retry loop.  returns = TRUE:
\* the function returns value; returns = FALSE: the attempt failed.
GeminiAttempt(r) ==
    IF r.raises THEN [returns |-> FALSE, value |-> None]
    ELSE IF Truthy(r.text)
         THEN IF IsOverloadText(r.text)
              THEN [returns |-> FALSE, value |-> None]
              ELSE [returns |-> TRUE, value |-> Strip(r.text)]
    ELSE IF r.block_reason # "BLOCK_REASON_UNSPECIFIED"
         THEN [returns |-> TRUE, value |-> BlockedSummary(r.block_reason)]
    ELSE [returns |-> FALSE, value |-> None]

\* RetryAfter without the "- 1" of line 242: a wait and an attempt too many.
RetryAfter_OffByOne(a) == a < max_retries

\* Line 242: there is a wait (and another attempt) after attempt a.
RetryAfter(a) == a < max_retries - 1

\* NextWait without the doubling of line 245.
NextWait_Constant(w) == w

\* Line 245
NextWait(w) == w * 2

\* get_gemini_perspective up to its return or its next sleep: the guard of lines
\* 171-173 (first pass only), one generate_content call and what lines 219-248
\* make of it.  On return, main calls get_openai_perspective (line 371).
GeminiCall(responses) ==
    /\ pc = "gemini"
    /\ IF ~gemini_model
       THEN /\ gemini_summary' = GeminiNotInitialized
            /\ pc' = "openai"
            /\ UNCHANGED <<gemini_calls, gemini_last, net>>
       ELSE \E r \in responses :
            LET a == GeminiAttempt(r) IN
            /\ gemini_calls' = Append(gemini_calls, GeminiKind(r))
            /\ gemini_last' = r
            /\ net' = net \cup {"gemini"}
            /\ IF a.returns
               THEN gemini_summary' = a.value /\ pc' = "openai"
               ELSE IF RetryAfter(attempt)
               THEN pc' = "gemini_backoff" /\ UNCHANGED gemini_summary
               ELSE gemini_summary' = GeminiFallback /\ pc' = "openai"
    /\ UNCHANGED <<env, dateVars, handleVars, digestVars, attempt, wait_time, waits,
                   openai_summary, openai_calls, countVars, smtpVars, exit_status>>

\* Lines 242-245 and the next iteration of the loop of line 211.
GeminiBackoff ==
    /\ pc = "gemini_backoff"
    /\ waits' = Append(waits, wait_time)
    /\ wait_time' = NextWait(wait_time)
    /\ attempt' = attempt + 1
    /\ pc' = "gemini"
    /\ UNCHANGED <<env, dateVars, handleVars, digestVars, gemini_calls, gemini_last, summaryVars,
                   net, countVars, smtpVars, exit_status>>

\* OpenAIResult without the test of line 270.
OpenAIResult_Unchecked(r) ==
    IF r.raises THEN OpenAIFallback ELSE Strip(r.content)

\* Lines 270-277: the value returned for a response.
OpenAIResult(r) ==
    IF r.raises THEN OpenAIFallback
    ELSE IF Truthy(r.content) THEN Strip(r.content)
    ELSE OpenAIFallback

\* OpenAICall without the call: main goes on to the image of the article before
\* the provider was asked.
OpenAICall_NotCalled(responses) ==
    /\ pc = "openai"
    /\ openai_summary' = OpenAINotInitialized
    /\ pc' = "image"
    /\ UNCHANGED <<env, dateVars, handleVars, digestVars, geminiVars, gemini_summary,
                   openai_calls, net, countVars, smtpVars, exit_status>>

\* get_openai_perspective (lines 250-277): the guard, the single call and the
\* return to main, which goes on to the image of the article.
OpenAICall(responses) ==
    /\ pc = "openai"
    /\ IF ~openai_client
       THEN /\ openai_summary' = OpenAINotInitialized
            /\ UNCHANGED <<openai_calls, net>>
       ELSE \E r \in responses :
            /\ openai_calls' = Append(openai_calls, OpenAIKind(r))
            /\ openai_summary' = OpenAIResult(r)
            /\ net' = net \cup {"openai"}
    /\ pc' = "image"
    /\ UNCHANGED <<env, dateVars, handleVars, digestVars, geminiVars, gemini_summary, countVars,
                   smtpVars, exit_status>>

-----------------------------------------------------------------------------
(* The image of an article and its fragment (lines 384-455).               *)

\* s.startswith(prefix)
StartsWith(s, prefix) ==
    Len(s) >= Len(prefix) /\ SubSeq(s, 1, Len(prefix)) = prefix

\* s.split(sep): the pieces of s between the occurrences of the token sep.
RECURSIVE Split(_, _)
Split(s, sep) ==
    IF ~Contains(s, sep) THEN <<s>>
    ELSE LET k == CHOOSE n \in 1..Len(s) :
                      s[n] = sep /\ \A j \in 1..(n - 1) : s[j] # sep
         IN  <<SubSeq(s, 1, k - 1)>> \o Split(SubSeq(s, k + 1, Len(s)), sep)

\* mimetypes.guess_type(url)[0]: the type of the extension of the URL, looked up
\* without regard to case.
guess_type(url) ==
    LET ext == IF Len(url) > 0 THEN LowerTok(url[Len(url)]) ELSE "" IN
    CASE ext = ".png"  -> <<"image", "/", "png">>
      [] ext = ".jpg"  -> <<"image", "/", "jpeg">>
      [] ext = ".html" -> <<"text", "/", "html">>
      [] OTHER         -> None

\* WantsImage without the lower() of line 387.
WantsImage_CaseSensitive(image_url) ==
    Truthy(image_url) /\ image_url \notin {<<"n/a">>, <<"none">>, <<>>}

\* Line 387: the image is to be downloaded.
WantsImage(image_url) ==
    Truthy(image_url) /\ Lower(image_url) \notin {<<"n/a">>, <<"none">>, <<>>}

\* Line 384
AuthorPart(author) ==
    IF Truthy(author) /\ Lower(author) # <<"n/a">> THEN author ELSE <<>>

\* Lines 399-400: the subtype the Content-Type header gives (None if it gives none).
HeaderSubtype(ctype) ==
    IF Truthy(ctype) /\ StartsWith(ctype, <<"image", "/">>)
    THEN Strip(Split(Split(ctype, "/")[2], ";")[1])
    ELSE None

\* Lines 403-408: the subtype the extension of the URL gives.
ExtensionSubtype(image_url) ==
    LET ctype == guess_type(image_url) IN
    IF Truthy(ctype) /\ StartsWith(ctype, <<"image", "/">>)
    THEN Split(ctype, "/")[2]
    ELSE None

\* DetermineSubtype with "if not ctype" for the "if not subtype" of line 403.
DetermineSubtype_OnlyWithoutHeader(ctype, image_url) ==
    IF ~Truthy(ctype) THEN ExtensionSubtype(image_url) ELSE HeaderSubtype(ctype)

\* Lines 396-408: the subtype of a 200 response, falsy if none is found.
DetermineSubtype(ctype, image_url) ==
    LET subtype == HeaderSubtype(ctype) IN
    IF ~Truthy(subtype) THEN ExtensionSubtype(image_url) ELSE subtype

\* NormalizeSubtype without lines 411-412.
NormalizeSubtype_Kept(subtype) == subtype

\* Lines 411-412
NormalizeSubtype(subtype) ==
    IF Lower(subtype) = <<"pjpeg">> THEN <<"jpeg">> ELSE subtype

\* ImageCid without the loop index.
ImageCid_Fixed(n) == <<"image", 0>>

\* Line 389
ImageCid(n) == <<"image", n>>

\* The Content-Type headers of an image response.
ContentTypes ==
    { None,
      <<"image", "/", "png">>,
      <<"image", "/", "pjpeg">>,
      <<"image", "/", " ", "PJPEG", " ", ";", "q=1">>,
      <<"image", "/">>,
      <<"text", "/", "html">> }

\* requests.get of the image: it raises, or gives a status, a Content-Type header
\* and the bytes.
ImageResponses ==
    {NoImageResponse} \cup [raises : {FALSE}, status_code : {200, 404}, content_type : ContentTypes,
          content : {"bytes"}]

\* Lines 394-424: the subtype under which the image of a response is attached
\* (falsy: the article gets no image).
ResolvedSubtype(r, image_url) ==
    IF r.raises \/ r.status_code # 200 THEN None
    ELSE LET subtype == DetermineSubtype(r.content_type, image_url) IN
         IF Truthy(subtype) THEN NormalizeSubtype(subtype) ELSE None

\* ArticleHtml with one guard around both summaries: when Gemini gave its
\* fallback string the OpenAI text is replaced by the OpenAI fallback string.
ArticleHtml_FailureShared(n, article, image_part, gemini, openai) ==
    [kind |-> "article", index |-> n, title |-> article.title,
     author_part |-> AuthorPart(article.author), image_part |-> image_part,
     gemini |-> gemini,
     openai |-> IF gemini = GeminiFallback THEN OpenAIFallback ELSE openai]

\* ArticleHtml numbered from 0 (enumerate without its start argument).
ArticleHtml_ZeroBased(n, article, image_part, gemini, openai) ==
    [kind |-> "article", index |-> n - 1, title |-> article.title,
     author_part |-> AuthorPart(article.author), image_part |-> image_part,
     gemini |-> gemini, openai |-> openai]

\* Lines 415-419 and 432-454: the HTML of article n; image_part is the list of
\* the cid: references of its <img> tags.
ArticleHtml(n, article, image_part, gemini, openai) ==
    [kind |-> "article", index |-> n, title |-> article.title,
     author_part |-> AuthorPart(article.author), image_part |-> image_part,
     gemini |-> gemini, openai |-> openai]

\* The records of the summarizer calls are those of the article in hand.
ForgetCalls ==
    /\ gemini_calls' = <<>>
    /\ gemini_last' = NoResponse
    /\ waits' = <<>>
    /\ openai_calls' = <<>>
    /\ attempt' = 0
    /\ wait_time' = InitialWait

\* Lines 384-387, 432-455 for an article without a usable image URL: the fragment
\* is appended without any request.
AppendWithoutImage ==
    /\ pc = "image"
    /\ ~WantsImage(articles[i].urlToImage)
    /\ email_body_parts' = Append(email_body_parts,
            ArticleHtml(i, articles[i], <<>>, gemini_summary, openai_summary))
    /\ pc' = "sleep"
    /\ ForgetCalls
    /\ UNCHANGED <<env, dateVars, handleVars, articles, i, email_attachments, gemini_summary,
                   openai_summary, net, countVars, smtpVars, exit_status>>

\* Lines 384-455 for an article with an image URL: the GET, the attachment when a
\* subtype is found, and the fragment.
DownloadImage ==
    /\ pc = "image"
    /\ WantsImage(articles[i].urlToImage)
    /\ \E r \in ImageResponses :
        LET subtype == ResolvedSubtype(r, articles[i].urlToImage) IN
        /\ IF Truthy(subtype)
           THEN /\ email_attachments' =
                    [c \in DOMAIN email_attachments \cup {ImageCid(i)} |->
                        IF c = ImageCid(i) THEN <<r.content, subtype>>
                        ELSE email_attachments[c]]
                /\ email_body_parts' = Append(email_body_parts,
                    ArticleHtml(i, articles[i], <<ImageCid(i)>>, gemini_summary,
                                openai_summary))
           ELSE /\ UNCHANGED email_attachments
                /\ email_body_parts' = Append(email_body_parts,
                    ArticleHtml(i, articles[i], <<>>, gemini_summary, openai_summary))
        /\ image_last' = r
    /\ downloads' = downloads \cup {i}
    /\ net' = net \cup {"image"}
    /\ pc' = "sleep"
    /\ ForgetCalls
    /\ UNCHANGED <<env, dateVars, handleVars, articles, i, gemini_summary, openai_summary,
                   fetches, fetched, sleeps, smtpVars, exit_status>>

\* BuildMessage without the loop of lines 298-305.
BuildMessage_HtmlOnly(html_body, attachments) ==
    <<[part |-> "html", body |-> html_body]>>

\* send_email, lines 290-305: the HTML part, then one image part per attachment,
\* in the order of insertion (the order of the loop indexes).  MIMEImage is
\* given bytes and a non-empty subtype, for which it does not raise, so the
\* handler of lines 304-305 is not entered.
BuildMessage(html_body, attachments) ==
    <<[part |-> "html", body |-> html_body]>> \o
    [k \in 1..Cardinality(DOMAIN attachments) |->
        LET cid == CHOOSE c \in DOMAIN attachments :
                       Cardinality({d \in DOMAIN attachments : d[2] < c[2]}) = k - 1
        IN  [part |-> "image", content_id |-> cid, data |-> attachments[cid][1],
             subtype |-> attachments[cid][2]]]

\* ArticleSleep with the sleep of line 458 skipped after the last article.
ArticleSleep_NoFinalSleep ==
    /\ pc = "sleep"
    /\ sleeps' = IF i < Len(articles) THEN sleeps + 1 ELSE sleeps
    /\ image_last' = NoImageResponse
    /\ IF i < Len(articles)
       THEN /\ i' = i + 1
            /\ pc' = "gemini"
            /\ UNCHANGED msg
       ELSE /\ msg' = BuildMessage(email_body_parts, email_attachments)
            /\ pc' = "smtp_connect"
            /\ UNCHANGED i
    /\ UNCHANGED <<env, dateVars, handleVars, articles, email_body_parts,
                   email_attachments, geminiVars, summaryVars, net, fetches, fetched,
                   downloads, server, conn, smtp_log, exit_status>>

\* ArticleSleep with lines 460-470 inside the loop body: the digest is composed
\* and sent after the first article.
ArticleSleep_SendInsideLoop ==
    /\ pc = "sleep"
    /\ sleeps' = sleeps + 1
    /\ image_last' = NoImageResponse
    /\ msg' = BuildMessage(email_body_parts, email_attachments)
    /\ pc' = "smtp_connect"
    /\ UNCHANGED <<env, dateVars, handleVars, articles, i, email_body_parts,
                   email_attachments, geminiVars, summaryVars, net, fetches, fetched,
                   downloads, server, conn, smtp_log, exit_status>>

\* Line 458 (the response of the image GET is dropped with the loop body's
\* locals), and then either the next iteration of the loop (into
\* get_gemini_perspective) or lines 461-470 and send_email up to its connection.
ArticleSleep ==
    /\ pc = "sleep"
    /\ sleeps' = sleeps + 1
    /\ image_last' = NoImageResponse
    /\ IF i < Len(articles)
       THEN /\ i' = i + 1
            /\ pc' = "gemini"
            /\ UNCHANGED msg
       ELSE /\ msg' = BuildMessage(email_body_parts, email_attachments)
            /\ pc' = "smtp_connect"
            /\ UNCHANGED i
    /\ UNCHANGED <<env, dateVars, handleVars, articles, email_body_parts, email_attachments,
                   geminiVars, summaryVars, net, fetches, fetched, downloads, server,
                   conn, smtp_log, exit_status>>

-----------------------------------------------------------------------------
(* The email transport (lines 307-329).                                    *)

\* What an SMTP command may do: succeed, be refused by the server (an SMTP error
\* reply: SMTPAuthenticationError for login), or find the connection lost
\* (SMTPServerDisconnected, a socket error).
SmtpOutcomes == {"ok", "refused", "dropped"}

\* Line 309: smtplib.SMTP(host, port).  When it raises, 'server' is not bound, the
\* finally clause does nothing and send_email returns to main (line 479).
SmtpConnect ==
    /\ pc = "smtp_connect"
    /\ \E o \in {"ok", "dropped"} :
        /\ smtp_log' = Append(smtp_log, <<"connect", o>>)
        /\ IF o = "ok"
           THEN /\ server' = TRUE
                /\ conn' = "open"
                /\ pc' = "smtp_ehlo"
                /\ UNCHANGED exit_status
           ELSE /\ pc' = "exit"
                /\ exit_status' = "0"
                /\ UNCHANGED <<server, conn>>
    /\ net' = net \cup {"smtp"}
    /\ UNCHANGED <<env, dateVars, handleVars, digestVars, geminiVars, summaryVars, countVars, msg>>

\* One of the commands of lines 310-318: on success the next line runs; an
\* exception goes to the handlers of lines 322-326 and then to the finally clause.
SmtpCommand(here, command, next) ==
    /\ pc = here
    /\ \E o \in SmtpOutcomes :
        /\ smtp_log' = Append(smtp_log, <<command, o>>)
        /\ conn' = IF o = "dropped" THEN "dropped" ELSE conn
        /\ pc' = IF o = "ok" THEN next ELSE "smtp_quit"
    /\ UNCHANGED <<env, dateVars, handleVars, digestVars, geminiVars, summaryVars, net, countVars,
                   msg, server, exit_status>>

\* SmtpEhlo without lines 311-312: the login follows the first EHLO.
SmtpEhlo_WithoutStartTls == SmtpCommand("smtp_ehlo", "ehlo", "smtp_login")

SmtpEhlo == SmtpCommand("smtp_ehlo", "ehlo", "smtp_starttls")
SmtpStartTls == SmtpCommand("smtp_starttls", "starttls", "smtp_ehlo2")
SmtpEhloAgain == SmtpCommand("smtp_ehlo2", "ehlo", "smtp_login")
SmtpLogin == SmtpCommand("smtp_login", "login", "smtp_send")
SmtpSendMessage == SmtpCommand("smtp_send", "send_message", "smtp_quit")

\* Lines 327-329: server.quit() in the finally clause.  quit() sends QUIT: on a
\* connection already lost smtplib raises SMTPServerDisconnected at once
\* ("not_connected"), and the connection may also be lost at the QUIT itself.
\* Nothing catches the exception: it leaves send_email and main.
SmtpQuit ==
    /\ pc = "smtp_quit"
    /\ server
    /\ \E o \in IF conn = "dropped" THEN {"not_connected"} ELSE {"ok", "dropped"} :
        /\ smtp_log' = Append(smtp_log, <<"quit", o>>)
        /\ conn' = IF o = "ok" THEN "closed" ELSE "dropped"
        /\ pc' = IF o = "ok" THEN "exit" ELSE "uncaught"
        /\ exit_status' = IF o = "ok" THEN "0" ELSE "1"
    /\ UNCHANGED <<env, dateVars, handleVars, digestVars, geminiVars, summaryVars, net, countVars,
                   msg, server>>

-----------------------------------------------------------------------------
(* A run of main().                                                        *)

Next ==
    \/ LoadEnvironment
    \/ CheckGemini
    \/ CheckOpenAI
    \/ StartupSleep
    \/ FetchNews
    \/ GeminiCall(RunGemini)
    \/ GeminiBackoff
    \/ OpenAICall(RunOpenAI)
    \/ AppendWithoutImage
    \/ DownloadImage
    \/ ArticleSleep
    \/ SmtpConnect
    \/ SmtpEhlo
    \/ SmtpStartTls
    \/ SmtpEhloAgain
    \/ SmtpLogin
    \/ SmtpSendMessage
    \/ SmtpQuit

Spec == Init /\ [][Next]_vars

-----------------------------------------------------------------------------
(* The two summarizers on their own: main has passed the gate and fetched  *)
(* one article, and calls get_gemini_perspective and then                  *)
(* get_openai_perspective (lines 370-371) against provider stubs that may  *)
(* answer anything.                                                        *)

InitSummarize ==
    /\ pc = "gemini"
    /\ env = CompleteEnv
    /\ now = RunDate
    /\ email_subject = Subject(get_ordinal_date(RunDate))
    /\ gemini_model = TRUE
    /\ openai_client = TRUE
    /\ gemini_ok = TRUE
    /\ openai_ok = TRUE
    /\ startup_checks = <<"check_gemini", "check_openai">>
    /\ articles = Window(1, 1)
    /\ i = 1
    /\ email_body_parts = HeaderParts(Window(1, 1))
    /\ email_attachments = <<>>
    /\ attempt = 0
    /\ wait_time = InitialWait
    /\ gemini_summary = None
    /\ openai_summary = None
    /\ gemini_calls = <<>>
    /\ gemini_last = NoResponse
    /\ waits = <<>>
    /\ openai_calls = <<>>
    /\ net = {"gemini_check", "openai_check", "fetch"}
    /\ fetches = 1
    /\ fetched = [raises |-> FALSE, status |-> "ok", articles |-> Window(1, 1)]
    /\ downloads = {}
    /\ image_last = NoImageResponse
    /\ sleeps = 0
    /\ msg = <<>>
    /\ server = FALSE
    /\ conn = "none"
    /\ smtp_log = <<>>
    /\ exit_status = "running"

NextSummarize ==
    \/ GeminiCall(StubGemini)
    \/ GeminiBackoff
    \/ OpenAICall(StubOpenAI)

SpecSummarize == InitSummarize /\ [][NextSummarize]_vars

-----------------------------------------------------------------------------
(* Properties of the summarizers, checked under SpecSummarize.             *)

\* Provider side: the outcomes that are transient failures.
TransientKinds == {"exception", "overload", "empty"}

\* get_gemini_perspective has returned to main.
GeminiReturned == pc \notin {"gemini", "gemini_backoff"}

\* The waits the backoff is to make between the attempts.
BackoffSchedule == <<2, 4>>

\* Calls 1..n-1 of the article in hand failed transiently.
TransientBefore(n) == \A j \in 1..(n - 1) : gemini_calls[j] \in TransientKinds

\* C1: when the first k calls (k = 0, 1, 2) fail transiently (exception, text
\* with an overload phrase, no text and no block) and call k+1 gives usable
\* text, that call is the last one, the function has returned the text (as line
\* 226 returns it: without the white space around it) and the waits made are
\* the first k of 2, 4.
C1_SuccessAfterTransientFailures ==
    \A n \in 1..Len(gemini_calls) :
        (n <= 3 /\ gemini_calls[n] = "usable" /\ TransientBefore(n)) =>
            /\ n = Len(gemini_calls)
            /\ GeminiReturned
            /\ gemini_summary = Strip(gemini_last.text)
            /\ waits = SubSeq(BackoffSchedule, 1, n - 1)

\* C1 witness: overload, overload, valid text: the valid text after 3 calls and
\* waits of 2 then 4.
C1_Witness ==
    /\ pc = "openai"
    /\ gemini_calls = <<"overload", "overload", "usable">>
    /\ gemini_last.text = <<"ok", " ">>
    /\ gemini_summary = <<"ok">>
    /\ waits = <<2, 4>>

\* C2: a response that reports a block instead of text ends the function at that
\* call: no further call, no wait after it, and the value returned names the
\* block reason.
C2_BlockIsTerminal ==
    \A n \in 1..Len(gemini_calls) :
        gemini_calls[n] = "blocked" =>
            /\ n = Len(gemini_calls)
            /\ GeminiReturned
            /\ Len(waits) = n - 1
            /\ Contains(gemini_summary, gemini_last.block_reason)
            /\ gemini_summary # GeminiFallback

\* C2 witness: a block on the first call, one call, no wait.
C2_Witness ==
    /\ pc = "openai"
    /\ gemini_calls = <<"blocked">>
    /\ waits = <<>>
    /\ gemini_last.block_reason = "SAFETY"
    /\ Contains(gemini_summary, "SAFETY")

\* C3: never more than 3 provider calls for an article; after 3 transient
\* failures the function has returned the generic fallback, having waited 2 and
\* then 4 and nothing after the third attempt.
C3_AttemptBudget ==
    /\ Len(gemini_calls) <= 3
    /\ (Len(gemini_calls) = 3 /\ TransientBefore(4)) =>
            /\ GeminiReturned
            /\ waits = <<2, 4>>
            /\ gemini_summary =
                <<"Summary could not be generated by Gemini after multiple attempts.">>

\* C3 witness: three failed attempts of three kinds.
C3_Witness ==
    /\ pc = "openai"
    /\ gemini_calls = <<"exception", "empty", "overload">>
    /\ gemini_summary = GeminiFallback

\* C4: get_openai_perspective is one step: one provider call, no sleep, and the
\* fixed fallback when the call raises or gives an empty message.
C4_OpenAISingleShot ==
    [][pc = "openai" =>
        /\ pc' = "image"
        /\ openai_calls = <<>>
        /\ Len(openai_calls') = 1
        /\ waits' = waits
        /\ (openai_calls'[1] \in {"exception", "empty"} =>
                openai_summary' = <<"Summary could not be generated by OpenAI.">>)]_vars

\* C4 witness: the call raised and the fallback was returned.
C4_Witness ==
    /\ pc = "image"
    /\ openai_calls = <<"exception">>
    /\ openai_summary = OpenAIFallback

\* C5: both summarizers return a non-empty string whatever the provider does.
C5_NeverEmpty ==
    /\ (pc \in {"openai", "image"} => Truthy(gemini_summary))
    /\ (pc = "image" => Truthy(openai_summary))

-----------------------------------------------------------------------------
(* Properties of a run of main(), checked under Spec.                      *)

\* The article fragments among the parts of a body, in order.
FragmentsOf(parts) == SelectSeq(parts, LAMBDA p : p.kind = "article")

Fragments == FragmentsOf(email_body_parts)

\* The positions of main at which the loop is over and send_email is running
\* or has ended.
AfterLoop ==
    pc \in {"smtp_connect", "smtp_ehlo", "smtp_starttls", "smtp_ehlo2", "smtp_login",
            "smtp_send", "smtp_quit", "uncaught"}
    \/ (pc = "exit" /\ Len(articles) > 0)

\* The number of articles whose fragment is appended at the current position.
Processed ==
    IF Len(articles) = 0 THEN 0
    ELSE IF pc \in {"gemini", "gemini_backoff", "openai", "image"} THEN i - 1
    ELSE i

\* C6: the fragments are those of the articles processed so far, numbered 1, 2,
\* ... in fetch order, whatever the summarizers and the image gave; after the
\* loop there are exactly N of them, and they are the body handed to send_email.
C6_AllArticlesInOrder ==
    /\ Len(Fragments) = Processed
    /\ \A k \in 1..Len(Fragments) :
            Fragments[k].index = k /\ Fragments[k].title = articles[k].title
    /\ AfterLoop =>
            /\ Len(Fragments) = Len(articles)
            /\ FragmentsOf(msg[1].body) = Fragments

\* C6 witness: a batch of two whose first article lost both summaries and its
\* image, composed with both fragments.
C6_Witness ==
    /\ pc = "smtp_connect"
    /\ Len(articles) = 2
    /\ Len(Fragments) = 2
    /\ Fragments[1].gemini = GeminiFallback
    /\ Fragments[1].openai = OpenAIFallback
    /\ 1 \in downloads
    /\ Fragments[1].image_part = <<>>
    /\ Fragments[2].gemini = BlockedSummary("SAFETY")

\* The positions of the parts of a body that carry a cid: reference.
ImageRefs(parts) ==
    {k \in 1..Len(parts) : parts[k].kind = "article" /\ Len(parts[k].image_part) > 0}

\* C7: the keys of the attachment map are the content-IDs referenced by the
\* fragments, each referenced by one fragment; the same holds of the body and
\* the attachments handed to send_email.
C7_AttachmentsMatchReferences ==
    /\ {email_body_parts[k].image_part[1] : k \in ImageRefs(email_body_parts)}
            = DOMAIN email_attachments
    /\ Cardinality(ImageRefs(email_body_parts)) = Cardinality(DOMAIN email_attachments)
    /\ \A k \in ImageRefs(email_body_parts) : Len(email_body_parts[k].image_part) = 1
    /\ AfterLoop =>
            /\ {msg[1].body[k].image_part[1] : k \in ImageRefs(msg[1].body)}
                    = DOMAIN email_attachments
            /\ Cardinality(ImageRefs(msg[1].body)) = Cardinality(DOMAIN email_attachments)

\* C7 witness: one article with a PNG, one without image URL: one entry, one
\* reference, the same content-ID.
C7_Witness ==
    /\ pc = "smtp_connect"
    /\ Len(articles) = 2
    /\ articles[2].urlToImage = None
    /\ DOMAIN email_attachments = {<<"image", 1>>}
    /\ email_attachments[<<"image", 1>>][2] = <<"png">>
    /\ Fragments[1].image_part = <<<<"image", 1>>>>
    /\ Fragments[2].image_part = <<>>

\* The image URLs that stand for "no image".
NoImageUrls == {None, <<>>, <<"n/a">>, <<"N/A">>, <<"none">>, <<"None">>, <<"NONE">>}

\* Server side: a response from which no image subtype can be determined for
\* the URL: no image/<subtype> content type and no image extension.
Undeterminable(r, image_url) ==
    /\ ~r.raises
    /\ r.content_type \in {None, <<"image", "/">>, <<"text", "/", "html">>}
    /\ image_url[Len(image_url)] \notin {".png", ".PNG", ".jpg", ".JPG"}

\* C8: an article whose image URL stands for "no image" gets no request, no
\* <img> and no attachment; an article whose download gave no determinable
\* subtype gets no <img> and no attachment.
C8_NoImageWithoutSubtype ==
    /\ \A k \in 1..Len(Fragments) :
            articles[k].urlToImage \in NoImageUrls =>
                /\ k \notin downloads
                /\ Fragments[k].image_part = <<>>
                /\ <<"image", k>> \notin DOMAIN email_attachments
    /\ (pc = "sleep" /\ i \in downloads
            /\ Undeterminable(image_last, articles[i].urlToImage)) =>
                /\ Fragments[i].image_part = <<>>
                /\ <<"image", i>> \notin DOMAIN email_attachments

\* C8 witness: the first article has the URL "N/A" and was not requested; the
\* second was downloaded with status 200 and gave no subtype.
C8_Witness ==
    /\ pc = "sleep"
    /\ i = 2
    /\ articles[1].urlToImage = <<"N/A">>
    /\ downloads = {2}
    /\ image_last.status_code = 200
    /\ Undeterminable(image_last, articles[2].urlToImage)
    /\ email_attachments = <<>>
    /\ Fragments[1].image_part = <<>> /\ Fragments[2].image_part = <<>>

\* The number of entries of the SMTP log for a command.
SmtpCount(command) ==
    Cardinality({k \in 1..Len(smtp_log) : smtp_log[k][1] = command})

\* The transport raised only at the steps connect, TLS upgrade, login or send.
ErrorsOnlyInDelivery ==
    \A k \in 1..Len(smtp_log) :
        smtp_log[k][2] \in {"refused", "dropped"} =>
            smtp_log[k][1] \in {"connect", "starttls", "login", "send_message"}

\* C9: delivery is attempted at most once, and when the transport raises at
\* connect, TLS upgrade, login or send the error stays inside send_email: no
\* exception reaches main.
C9_DeliveryErrorsContained ==
    /\ SmtpCount("connect") <= 1
    /\ SmtpCount("send_message") <= 1
    /\ ErrorsOnlyInDelivery => pc # "uncaught"

\* Source side: the request failed or gave nothing to digest.
FetchFailed ==
    fetched.raises \/ fetched.status # "ok" \/ fetched.articles = <<>>

\* C10: the article source is asked once, and never again; when the request
\* fails or gives no article the batch is empty and the run ends without any
\* summarization call, image request or SMTP step.
C10_FetchOnceAndStopOnEmpty ==
    /\ fetches <= 1
    /\ pc \notin {"load_environment", "check_gemini", "check_openai", "startup_sleep",
                  "fetch"} /\ gemini_ok /\ openai_ok => fetches = 1
    /\ (fetches = 1 /\ FetchFailed) =>
            /\ articles = <<>>
            /\ pc = "exit"
            /\ net \cap {"gemini", "openai", "image", "smtp"} = {}
            /\ gemini_calls = <<>> /\ openai_calls = <<>>
            /\ downloads = {} /\ smtp_log = <<>> /\ msg = <<>>

\* C10 witness: the source answered with an error payload and the run is over.
C10_Witness ==
    /\ pc = "exit"
    /\ fetches = 1
    /\ fetched.status = "error"
    /\ articles = <<>>
    /\ exit_status = "0"

-----------------------------------------------------------------------------
(* get_ordinal_date on its own: the date of the run is any day of the      *)
(* year, and the subject line is formatted from it (lines 348-351).        *)

InitOrdinal ==
    /\ pc = "get_ordinal_date"
    /\ env = CompleteEnv
    /\ now \in Dates
    /\ email_subject = None
    /\ Fresh

FormatDate ==
    /\ pc = "get_ordinal_date"
    /\ email_subject' = Subject(get_ordinal_date(now))
    /\ pc' = "formatted"
    /\ UNCHANGED <<env, now, handleVars, digestVars, geminiVars, summaryVars, net,
                   countVars, smtpVars, exit_status>>

NextOrdinal == FormatDate

SpecOrdinal == InitOrdinal /\ [][NextOrdinal]_vars

-----------------------------------------------------------------------------
(* C11: the ordinal suffix of the day number.                              *)

\* The suffix the rule prescribes for each day of a month.
ExpectedSuffix(d) ==
    IF d \in {11, 12, 13} THEN "th"
    ELSE IF d \in {1, 21, 31} THEN "st"
    ELSE IF d \in {2, 22} THEN "nd"
    ELSE IF d \in {3, 23} THEN "rd"
    ELSE "th"

\* C11: for every day number 1..31 the formatted date carries the day followed
\* by "th" for 11, 12 and 13, and otherwise "st" for days ending in 1, "nd" for
\* days ending in 2, "rd" for days ending in 3 and "th" for the rest.
C11_OrdinalSuffix ==
    pc = "formatted" =>
        /\ email_subject[5] = ToString(now.day)
        /\ email_subject[6] = ExpectedSuffix(now.day)
        /\ email_subject[3] = MonthName[now.month]

\* The 12th of a month has been formatted with "th", not "nd".
C11_Witness ==
    /\ pc = "formatted"
    /\ now.day = 12
    /\ SubSeq(email_subject, 5, 6) = <<"12", "th">>

-----------------------------------------------------------------------------
(* C12: the progressive-JPEG subtype.                                      *)

\* The spellings of the progressive-JPEG subtype.
Pjpeg == {<<"pjpeg">>, <<"PJPEG">>}

\* The image GET of the article in hand was answered with status 200.
ImageFetched ==
    pc = "sleep" /\ i \in downloads /\ ~image_last.raises /\ image_last.status_code = 200

\* C12: no attachment carries the subtype pjpeg; when the subtype determined
\* for an image is pjpeg the image is stored under jpeg, and every other
\* determined subtype is stored as it was determined.
C12_PjpegStoredAsJpeg ==
    /\ \A c \in DOMAIN email_attachments : email_attachments[c][2] \notin Pjpeg
    /\ ImageFetched =>
         LET determined == DetermineSubtype(image_last.content_type,
                                            articles[i].urlToImage)
         IN  Truthy(determined) =>
               /\ ImageCid(i) \in DOMAIN email_attachments
               /\ email_attachments[ImageCid(i)][2] =
                    IF determined \in Pjpeg THEN <<"jpeg">> ELSE determined

\* An image declared as image/pjpeg has been attached under jpeg.
C12_Witness ==
    /\ ImageFetched
    /\ image_last.content_type = <<"image", "/", "pjpeg">>
    /\ ImageCid(i) \in DOMAIN email_attachments
    /\ email_attachments[ImageCid(i)][2] = <<"jpeg">>

-----------------------------------------------------------------------------
(* C13: the precondition gate.                                             *)

\* A required configuration value is missing: its key is absent, or present
\* without a value.
Missing(e) ==
    \E k \in api_keys \cup email_vars : k \notin DOMAIN e \/ e[k] = <<>>

\* A stage of the pipeline (fetch, summarize, image, compose, deliver) has
\* started.
PipelineStarted ==
    \/ pc \in {"fetch", "gemini", "gemini_backoff", "openai", "image", "sleep"}
    \/ fetches > 0
    \/ smtp_log # <<>>

\* C13: no network action occurs when a required configuration value is
\* missing, and no stage of the pipeline starts unless the configuration was
\* loaded and both startup checks, run once each, succeeded.
C13_GateBeforePipeline ==
    /\ Missing(env) => net = {}
    /\ PipelineStarted =>
          /\ load_environment(env)
          /\ gemini_ok /\ openai_ok
          /\ startup_checks = <<"check_gemini", "check_openai">>
    /\ Len(startup_checks) <= 2

-----------------------------------------------------------------------------
(* C14: the exit status.                                                   *)

\* The run has passed the gate: the configuration was loaded and both startup
\* checks succeeded.
GatePassed == load_environment(env) /\ gemini_ok /\ openai_ok

\* The process has ended.
Terminated == pc \in {"exit", "uncaught"}

\* C14: the exit status is decided by the gate alone: nonzero when the
\* configuration is missing or the startup checks fail, zero for every run that
\* passed the gate, whether the digest was sent, skipped for an empty batch or
\* failed in delivery.
C14_ExitStatusDecidedByGate ==
    Terminated => exit_status = (IF GatePassed THEN "0" ELSE "1")

-----------------------------------------------------------------------------
(* C15: overload phrases never leave get_gemini_perspective.               *)

\* The overload phrases, in the letter cases a provider may use.
OverloadSpellings ==
    {"overloaded", "Overloaded", "OVERLOADED", "try again", "Try Again", "TRY AGAIN"}

MentionsOverload(s) == \E k \in 1..Len(s) : s[k] \in OverloadSpellings

\* C15: the value returned by get_gemini_perspective never contains
\* "overloaded" or "try again" in any letter case; a provider text with such a
\* phrase is a failed attempt, and on the last permitted attempt it gives the
\* fallback string.
C15_NoOverloadTextReturned ==
    GeminiReturned =>
        /\ ~MentionsOverload(gemini_summary)
        /\ (gemini_calls # <<>> /\ gemini_last.text # None
              /\ MentionsOverload(gemini_last.text)) =>
                /\ Len(gemini_calls) = max_retries
                /\ gemini_summary = GeminiFallback

\* The third call returned a text with "Overloaded" in it and the function
\* returned the fallback string.
C15_Witness ==
    /\ GeminiReturned
    /\ Len(gemini_calls) = max_retries
    /\ gemini_last.text # None
    /\ Contains(gemini_last.text, "Overloaded")
    /\ gemini_summary = GeminiFallback

-----------------------------------------------------------------------------
(* C16: the run is strictly linear.                                        *)

\* The positions of main inside the loop body before the fragment of article i
\* is appended.
InArticle == pc \in {"gemini", "gemini_backoff", "openai", "image"}

\* Where the run stands: nothing of article i is done before the fragments of
\* the articles before it are appended, the summaries come one after the other,
\* and composition and delivery come after the last fragment.
LinearPositions ==
    /\ fetches <= 1
    /\ InArticle =>
          /\ Len(Fragments) = i - 1
          /\ downloads \subseteq 1..(i - 1)
          /\ pc \in {"gemini", "gemini_backoff", "openai"} => openai_calls = <<>>
          /\ pc \in {"openai", "image"} => Len(gemini_calls) >= 1
          /\ pc = "image" => Len(openai_calls) = 1
          /\ msg = <<>> /\ smtp_log = <<>>
    /\ pc = "sleep" =>
          /\ Len(Fragments) = i
          /\ downloads \subseteq 1..i
          /\ msg = <<>> /\ smtp_log = <<>>
    /\ (msg # <<>> \/ smtp_log # <<>>) =>
          /\ AfterLoop
          /\ Len(Fragments) = Len(articles)
          /\ FragmentsOf(msg[1].body) = Fragments
    /\ SmtpCount("connect") <= 1
    /\ SmtpCount("send_message") <= 1

\* How the run moves: a fragment is appended only for the article in hand, once
\* both its summaries are there and its image request, if any, is made in the
\* same step; the loop index only moves to the next article, after the fragment.
LinearSteps ==
    /\ Fragments' # Fragments =>
          /\ pc = "image"
          /\ Len(gemini_calls) >= 1 /\ Len(openai_calls) = 1
          /\ Len(Fragments') = Len(Fragments) + 1
          /\ Fragments'[i].index = i
          /\ Fragments'[i].gemini = gemini_summary
          /\ Fragments'[i].openai = openai_summary
    /\ downloads' # downloads =>
          /\ downloads' = downloads \cup {i} /\ i \notin downloads
          /\ Len(Fragments') = i
    /\ (i' # i /\ pc # "fetch") =>
          /\ i' = i + 1
          /\ Len(Fragments) = i
    /\ fetches' # fetches => (fetches = 0 /\ Fragments = <<>>)

\* C16: one fetch; the articles are processed one at a time in fetch order, the
\* two summarization calls and the image resolution of an article being done
\* before its fragment is appended and before anything is done for the next
\* article; then one composition and at most one delivery, after the last
\* fragment.
C16_StrictlyLinearRun == []LinearPositions /\ [][LinearSteps]_vars

\* A batch of two, both images requested, both fragments appended, the digest
\* sent once.
C16_Witness ==
    /\ pc = "exit"
    /\ Len(articles) = 2
    /\ downloads = {1, 2}
    /\ Len(Fragments) = 2
    /\ SmtpCount("send_message") = 1

-----------------------------------------------------------------------------
(* C17: the order of image resolution and summarization within an article. *)

\* C17, as stated: within an article the image is resolved before the two
\* summarization calls, so a summarizer is never called for an article with an
\* image URL whose image has not been requested.
C17_ImageBeforeSummaries ==
    (InArticle /\ WantsImage(articles[i].urlToImage) /\ Len(gemini_calls) >= 1) =>
        i \in downloads

\* C17, amended: within an article the two summarization calls come first; the
\* image is requested only when both summaries are there, and no summarizer is
\* called for an article whose image has been requested.
C17_SummariesBeforeImage ==
    [][ /\ downloads' # downloads =>
              /\ pc = "image"
              /\ Len(gemini_calls) >= 1 /\ Len(openai_calls) = 1
              /\ gemini_summary # None /\ openai_summary # None
        /\ (Len(gemini_calls') > Len(gemini_calls)
              \/ Len(openai_calls') > Len(openai_calls)) => i \notin downloads
      ]_vars

\* The image of an article was attached after both of its summaries were
\* returned.
C17_Witness ==
    /\ pc = "sleep"
    /\ i \in downloads
    /\ Fragments[i].image_part = <<ImageCid(i)>>
    /\ Fragments[i].gemini = <<"ok">>
    /\ Fragments[i].openai = <<"ok">>

-----------------------------------------------------------------------------
(* C18: where the image subtype comes from.                                *)

\* The article in hand has an attachment, referenced by its fragment.
ImageAttached ==
    /\ ImageCid(i) \in DOMAIN email_attachments
    /\ Fragments[i].image_part = <<ImageCid(i)>>

\* The article in hand has neither an attachment nor an <img> tag.
NoImage ==
    /\ ImageCid(i) \notin DOMAIN email_attachments
    /\ Fragments[i].image_part = <<>>

\* The image of the article in hand is attached under subtype s, pjpeg being
\* replaced by jpeg.
AttachedAs(s) ==
    /\ ImageAttached
    /\ email_attachments[ImageCid(i)][2] = IF s \in Pjpeg THEN <<"jpeg">> ELSE s

-----------------------------------------------------------------------------
(* C19: the inter-article delay.                                           *)

\* The number of delays made at each position of the run.
DelayCount ==
    /\ InArticle => sleeps = i - 1
    /\ pc = "sleep" => (sleeps = i - 1 /\ Len(Fragments) = i)
    /\ AfterLoop => sleeps = Len(articles)
    /\ sleeps <= Len(Fragments)

\* A delay is made once the fragment of the article in hand is appended, and
\* appends nothing itself.
DelayStep ==
    sleeps' # sleeps =>
        /\ sleeps' = sleeps + 1
        /\ Len(Fragments) = sleeps + 1
        /\ Fragments' = Fragments

\* C19: in a run over N articles the inter-article delay is made exactly N
\* times, once after the processing of each article, the last one and those
\* whose summaries or image failed included, and always after the fragment of
\* that article was appended.
C19_DelayAfterEachArticle == []DelayCount /\ [][DelayStep]_vars

\* A batch of two is through the loop with two delays, the second article
\* having lost its Gemini summary and its image.
C19_Witness ==
    /\ AfterLoop
    /\ Len(articles) = 2
    /\ sleeps = 2
    /\ Fragments[2].gemini = GeminiFallback
    /\ Fragments[2].image_part = <<>>
    /\ 2 \in downloads

-----------------------------------------------------------------------------
(* C20: the order of the SMTP steps.                                       *)

\* The steps of a delivery: connect, identify, upgrade, identify again,
\* authenticate, send, close.
SmtpSteps == <<"connect", "ehlo", "starttls", "ehlo", "login", "send_message", "quit">>

\* The steps executed so far, without their outcomes.
SmtpCommands == [k \in 1..Len(smtp_log) |-> smtp_log[k][1]]

\* The steps executed are the first n steps of a delivery, followed or not by
\* the close step; each step but the last one executed before the close
\* succeeded.
StepsInOrder ==
    /\ \E n \in 0..6 :
          \/ SmtpCommands = SubSeq(SmtpSteps, 1, n)
          \/ (n >= 1 /\ SmtpCommands = SubSeq(SmtpSteps, 1, n) \o <<"quit">>)
    /\ \A k \in 1..(Len(smtp_log) - 1) :
          smtp_log[k + 1][1] # "quit" => smtp_log[k][2] = "ok"

\* The message is sent only after a successful login that follows a successful
\* TLS upgrade.
SentOnlyAuthenticated ==
    \A k \in 1..Len(smtp_log) :
        smtp_log[k][1] = "send_message" =>
            \E t, a \in 1..(k - 1) :
                /\ t < a
                /\ smtp_log[t] = <<"starttls", "ok">>
                /\ smtp_log[a] = <<"login", "ok">>

\* The close step is executed once when the connection was established, and not
\* at all when it was not.
ClosedOnce ==
    /\ SmtpCount("quit") <= 1
    /\ (Terminated /\ smtp_log # <<>>) =>
          SmtpCount("quit") = (IF smtp_log[1] = <<"connect", "ok">> THEN 1 ELSE 0)

\* C20: the SMTP steps occur only in the order connect, identify, upgrade,
\* identify again, authenticate, send, close; the message is never sent unless
\* the login succeeded on the upgraded connection; once the connection is
\* established the close step is executed exactly once, whatever step failed.
C20_SmtpStepsInOrder == StepsInOrder /\ SentOnlyAuthenticated /\ ClosedOnce

\* The server refused the login; the close step followed, once, and nothing was
\* sent.
C20_Witness ==
    /\ Terminated
    /\ smtp_log = <<<<"connect", "ok">>, <<"ehlo", "ok">>, <<"starttls", "ok">>,
                    <<"ehlo", "ok">>, <<"login", "refused">>, <<"quit", "ok">>>>

-----------------------------------------------------------------------------
(* C21: the image parts of the message.                                    *)

\* The positions of the image parts of a message.
ImageParts(m) == {k \in 1..Len(m) : m[k].part = "image"}

\* The message was handed to the transport: send_message was executed.
MessageSent == SmtpCount("send_message") = 1

\* C21: the message built by send_email has one HTML part and, for each entry
\* of the attachment map, exactly one image part with the content-ID, the bytes
\* and the subtype of that entry, and no other part; so every cid: reference of
\* its HTML part has an image part in the same message.
C21_OneImagePartPerAttachment ==
    msg # <<>> =>
        /\ msg[1].part = "html"
        /\ ImageParts(msg) = 2..Len(msg)
        /\ \A c \in DOMAIN email_attachments :
              Cardinality({k \in ImageParts(msg) : msg[k].content_id = c}) = 1
        /\ \A k \in ImageParts(msg) :
              /\ msg[k].content_id \in DOMAIN email_attachments
              /\ msg[k].data = email_attachments[msg[k].content_id][1]
              /\ msg[k].subtype = email_attachments[msg[k].content_id][2]
        /\ \A r \in ImageRefs(msg[1].body) :
              \E k \in ImageParts(msg) : msg[k].content_id = msg[1].body[r].image_part[1]

\* A message with two image parts, referenced by the two fragments of its HTML
\* part, was handed to the transport.
C21_Witness ==
    /\ MessageSent
    /\ Len(msg) = 3
    /\ Cardinality(ImageRefs(msg[1].body)) = 2
    /\ msg[2].content_id # msg[3].content_id

-----------------------------------------------------------------------------
(* C22: the two summaries of an article are independent.                   *)

\* The value get_gemini_perspective is to return, from the responses of the
\* Gemini provider alone: the stripped text of a usable response, the block
\* message of a blocked one, the fallback string after the last failed attempt.
GeminiTextFromItsProvider ==
    LET last == gemini_calls[Len(gemini_calls)] IN
    IF last = "usable" THEN Strip(gemini_last.text)
    ELSE IF last = "blocked" THEN BlockedSummary(gemini_last.block_reason)
    ELSE GeminiFallback

\* The values get_openai_perspective may return after a call of the given kind,
\* from the responses of the OpenAI provider alone.
OpenAITextsFromItsProvider(kind) ==
    IF kind = "content"
    THEN {Strip(r.content) : r \in {q \in RunOpenAI : OpenAIKind(q) = "content"}}
    ELSE {OpenAIFallback}

\* Both summaries of the article in hand are returned: OpenAI was called once,
\* whatever the Gemini calls gave, and each text is the one of its provider.
BothFromTheirProviders ==
    pc = "image" =>
        /\ Len(gemini_calls) >= 1
        /\ Len(openai_calls) = 1
        /\ gemini_summary = GeminiTextFromItsProvider
        /\ openai_summary \in OpenAITextsFromItsProvider(openai_calls[1])

\* A call of one provider leaves the text of the other as it was, and the
\* fragment carries both texts as they were returned.
SummariesKept ==
    /\ Len(openai_calls') > Len(openai_calls) => gemini_summary' = gemini_summary
    /\ Len(gemini_calls') > Len(gemini_calls) => openai_summary' = openai_summary
    /\ Len(Fragments') > Len(Fragments) =>
          /\ Fragments'[i].gemini = gemini_summary
          /\ Fragments'[i].openai = openai_summary

\* C22: for every article the secondary provider is called exactly once
\* whatever the primary path gave (success, block, exhausted retries); each of
\* the two texts depends on the responses of its own provider only; and the
\* failure of one provider neither replaces nor removes the text of the other
\* in the fragment.
C22_SummariesIndependent == []BothFromTheirProviders /\ [][SummariesKept]_vars

\* A digest of two fragments: in the first Gemini exhausted its attempts and
\* the OpenAI text is there, in the second the Gemini text is there and OpenAI
\* failed.
C22_Witness ==
    /\ Len(Fragments) = 2
    /\ Fragments[1].gemini = GeminiFallback
    /\ Fragments[1].openai = <<"ok">>
    /\ Fragments[2].gemini = <<"ok">>
    /\ Fragments[2].openai = OpenAIFallback

====
